---- MODULE Spec2Model ----
(***************************************************************************)
(* Model of .github/scripts/process_issue.py: the issue-body parser, the   *)
(* accuracy rank key, and the three leaderboard operations (update,        *)
(* verify, remove) over the JSON backing file docs/leaderboard.json.       *)
(*                                                                         *)
(* Text is modelled as a sequence of one-character strings, so that the    *)
(* regular expressions, str.strip, str.lower, str.replace and float() are  *)
(* computed character by character as the code computes them.              *)
(***************************************************************************)
EXTENDS Integers, Sequences, FiniteSets, TLC

VARIABLES file_exists, file_submissions, last

vars == <<file_exists, file_submissions, last>>

(***************************************************************************)
(* Bounds of the model.                                                    *)
(***************************************************************************)
MaxIssue == 2

Issues == 1..MaxIssue

(***************************************************************************)
(* Characters and strings.                                                 *)
(***************************************************************************)
NL == <<"\n">>

\* Python's \s and str.strip() whitespace, restricted to ASCII.
IsSpace(c) == c \in {" ", "\t", "\n", "\r", "\f"}

UpperCase == <<"A","B","C","D","E","F","G","H","I","J","K","L","M",
               "N","O","P","Q","R","S","T","U","V","W","X","Y","Z">>

LowerCase == <<"a","b","c","d","e","f","g","h","i","j","k","l","m",
               "n","o","p","q","r","s","t","u","v","w","x","y","z">>

LowerChar(c) ==
    IF \E i \in 1..26 : UpperCase[i] = c
    THEN LowerCase[CHOOSE i \in 1..26 : UpperCase[i] = c]
    ELSE c

\* str.lower()
lower(s) == [i \in 1..Len(s) |-> LowerChar(s[i])]

\* str.strip(): drop leading and trailing whitespace.
strip(s) ==
    LET keep == {i \in 1..Len(s) : ~IsSpace(s[i])}
    IN  IF keep = {} THEN <<>>
        ELSE LET lo == CHOOSE i \in keep : \A j \in keep : i <= j
                 hi == CHOOSE i \in keep : \A j \in keep : j <= i
             IN  SubSeq(s, lo, hi)

\* str.replace('%', ''): drop every percent sign.
replace_percent(s) == SelectSeq(s, LAMBDA c : c # "%")

\* TRUE iff the literal lit occurs in s at position p (1-based).
HasAt(s, p, lit) ==
    /\ p >= 1
    /\ p + Len(lit) - 1 <= Len(s)
    /\ SubSeq(s, p, p + Len(lit) - 1) = lit

(***************************************************************************)
(* parse_issue_body: the six patterns of the issue template.               *)
(***************************************************************************)
Fields == {"student_name", "model_length", "accuracy", "tensorboard_link",
           "improvement_description", "gpu_hours"}

H3 == <<"#","#","#">>

\* The literal heading each pattern starts with.
Heading(key) ==
    CASE key = "student_name" ->
           H3 \o <<" ","S","t","u","d","e","n","t"," ","N","a","m","e">>
      [] key = "model_length" ->
           H3 \o <<" ","M","o","d","e","l"," ","L","e","n","g","t","h">>
      [] key = "accuracy" ->
           H3 \o <<" ","A","c","c","u","r","a","c","y">>
      [] key = "tensorboard_link" ->
           H3 \o <<" ","T","e","n","s","o","r","B","o","a","r","d",
                   " ","L","i","n","k">>
      [] key = "improvement_description" ->
           H3 \o <<" ","I","m","p","r","o","v","e","m","e","n","t"," ",
                   "D","e","s","c","r","i","p","t","i","o","n">>
      [] key = "gpu_hours" ->
           H3 \o <<" ","G","P","U"," ","H","o","u","r","s">>

\* '$' under re.MULTILINE: end of text, or just before a newline.
AtDollar(body, e) == e = Len(body) + 1 \/ (e <= Len(body) /\ body[e] = "\n")

\* The lookahead (?=\n###|\n\n###|$) at position e.
LookAhead(body, e) ==
    \/ HasAt(body, e, NL \o H3)
    \/ HasAt(body, e, NL \o NL \o H3)
    \/ AtDollar(body, e)

AllSpace(body, from, to) == \A k \in from..to : IsSpace(body[k])

Max(S) == CHOOSE x \in S : \A y \in S : y <= x

Min(S) == CHOOSE x \in S : \A y \in S : x <= y

\* The pattern  <heading>\s*\n\s*(.+?)(?=\n###|\n\n###|$)  with the heading
\* ending just before position a.  NewlinePos: where the mandatory \n can
\* stand (only whitespace before it, at least one character after it for
\* the group).  GroupStarts: where the group can start once \n stands at i.
\* GroupEnds: where the group can end; re.DOTALL lets it run over newlines.
NewlinePos(body, a) ==
    {i \in a..(Len(body) - 1) : AllSpace(body, a, i - 1) /\ body[i] = "\n"}

GroupStarts(body, i) ==
    {s \in (i + 1)..Len(body) : AllSpace(body, i + 1, s - 1)}

GroupEnds(body, s) ==
    {e \in (s + 1)..(Len(body) + 1) : LookAhead(body, e)}

\* The group is lazy: it ends at the first possible end.
GroupFrom(body, s) == <<SubSeq(body, s, Min(GroupEnds(body, s)) - 1)>>

\* The second \s* is greedy: the group starts at the last possible start.
GroupAfterNewline(body, i) == GroupFrom(body, Max(GroupStarts(body, i)))

\* The first \s* is greedy: the \n is the last possible one.
GroupAfterHeading(body, newlines) ==
    IF newlines = {} THEN <<>> ELSE GroupAfterNewline(body, Max(newlines))

\* The match the backtracking engine reports with the heading at p, as
\* <<group(1)>>, or <<>> when there is none.
MatchAt(body, p, heading) ==
    IF HasAt(body, p, heading)
    THEN GroupAfterHeading(body, NewlinePos(body, p + Len(heading)))
    ELSE <<>>

\* The match at the leftmost of the positions ps where the pattern matches.
LeftmostMatch(body, heading, ps) ==
    IF ps = {} THEN <<>> ELSE MatchAt(body, Min(ps), heading)

MatchPositions(body, heading) ==
    {p \in 1..Len(body) : HasAt(body, p, heading)
                            /\ NewlinePos(body, p + Len(heading)) # {}}

\* re.search(pattern, body, re.DOTALL | re.MULTILINE)
re_search(body, key) ==
    LeftmostMatch(body, Heading(key), MatchPositions(body, Heading(key)))

Sentinels == { <<"n","/","a">>,
               <<"_","n","o"," ","r","e","s","p","o","n","s","e","_">>,
               <<"n","o"," ","r","e","s","p","o","n","s","e">> }

\* A test that skips empty values only, not the "no answer" tokens.
StoredValue_keeps_sentinels(value) ==
    IF value # <<>> THEN <<value>> ELSE <<>>

\* The test of the loop on the stripped value: <<value>> when it is stored,
\* <<>> when it is skipped.
StoredValue(value) ==
    IF value # <<>> /\ lower(value) \notin Sentinels
    THEN <<value>> ELSE <<>>

MatchValue(match) ==
    IF match = <<>> THEN <<>> ELSE StoredValue(strip(match[1]))

\* The value the loop stores for key, as <<value>>, or <<>> when the key is
\* left out of data.
FieldValue(body, key) == MatchValue(re_search(body, key))

\* The dict of the keys that were stored.
AsDict(stored) ==
    [key \in {k \in Fields : stored[k] # <<>>} |-> stored[key][1]]

parse_issue_body(body) ==
    AsDict([key \in Fields |-> FieldValue(body, key)])

(***************************************************************************)
(* Inputs.  Two families of issue bodies: SortBodies differ in the         *)
(* accuracy they report, ParseBodies in the shape of one section.          *)
(***************************************************************************)
NA == <<"N","/","A">>

Section(key, value) == Heading(key) \o NL \o value

\* A percentage and a fraction of the same rank (80% and 0.8), a higher
\* percentage, text that is not a number, a negative number, nan, and no
\* accuracy at all.
SortBodies ==
    { <<>>,
      Section("accuracy", <<"8","0","%">>),
      Section("accuracy", <<"0",".","8">>),
      Section("accuracy", <<"9","5">>),
      Section("accuracy", <<"a","b","c">>),
      Section("accuracy", <<"-","5">>),
      Section("accuracy", <<"n","a","n">>) }

OneLine == <<"7">>

TwoLines == <<"L","i","n","e"," ","o","n","e",".","\n",
              "L","i","n","e"," ","t","w","o",".">>

\* What may stand under a heading: one line, two lines, a padded line after
\* a blank one, nothing, blanks only, and the "no answer" tokens.
SectionValues ==
    { OneLine,
      TwoLines,
      <<"\n"," ","7"," ">>,
      <<>>,
      <<" "," ">>,
      NA,
      <<"n","/","a">>,
      <<"_","N","o"," ","r","e","s","p","o","n","s","e","_">>,
      <<"N","o"," ","r","e","s","p","o","n","s","e">> }

\* The section that follows the one under test, when one does.
NextField(key) == IF key = "gpu_hours" THEN "accuracy" ELSE "gpu_hours"

\* ### Accuracy / N/A / (blank) / ### GPU Hours / _No response_
SentinelExample ==
    Section("accuracy", NA) \o NL \o NL
        \o Section("gpu_hours",
                   <<"_","N","o"," ","r","e","s","p","o","n","s","e","_">>)

ParseBodies ==
    {<<>>, SentinelExample}
      \cup {Section(k, v) : k \in Fields, v \in SectionValues}
      \cup {Section(k, v) \o NL \o NL \o Section(NextField(k), <<"1","0">>) :
                k \in Fields, v \in SectionValues}

Bodies == SortBodies \cup ParseBodies

Authors == { <<"a","l">>, <<"b","o">> }

Times == {"t1", "t2"}

\* parse_issue_body of every body, computed once.
ParsedBody == [body \in Bodies |-> parse_issue_body(body)]

\* dict.get(key, default)
get(data, key, default) == IF key \in DOMAIN data THEN data[key] ELSE default

\* The accuracy strings a Submission can hold.
StoredAccuracies == {get(ParsedBody[body], "accuracy", NA) : body \in Bodies}

(***************************************************************************)
(* float(): Python's conversion of text to a floating-point number, for    *)
(* signed decimal literals, nan, inf and infinity.  Exponents and digit    *)
(* separators are not modelled; no input below contains them.  A value is  *)
(* kept exact, as the fraction num/den; the inputs below are chosen so     *)
(* that this agrees with the rounding of IEEE doubles.                     *)
(***************************************************************************)
Digits == <<"0","1","2","3","4","5","6","7","8","9">>

IsDigit(c) == \E i \in 1..10 : Digits[i] = c

DigitVal(c) == (CHOOSE i \in 1..10 : Digits[i] = c) - 1

RECURSIVE DigitsValue(_)
DigitsValue(ds) ==
    IF ds = <<>> THEN 0
    ELSE 10 * DigitsValue(SubSeq(ds, 1, Len(ds) - 1)) + DigitVal(ds[Len(ds)])

RECURSIVE Pow10(_)
Pow10(k) == IF k = 0 THEN 1 ELSE 10 * Pow10(k - 1)

ValueError == [kind |-> "ValueError", num |-> 0, den |-> 1]

NaN == [kind |-> "nan", num |-> 0, den |-> 1]

Inf(sign) == [kind |-> "inf", num |-> sign, den |-> 1]

Num(n, d) == [kind |-> "num", num |-> n, den |-> d]

\* A decimal literal with integer part ip and fraction part fp.
Decimal(sign, ip, fp) ==
    IF /\ Len(ip) + Len(fp) >= 1
       /\ \A i \in 1..Len(ip) : IsDigit(ip[i])
       /\ \A i \in 1..Len(fp) : IsDigit(fp[i])
    THEN Num(sign * DigitsValue(ip \o fp), Pow10(Len(fp)))
    ELSE ValueError

\* The literal u split at its first point, if it has one.
SplitAtPoint(sign, u, dots) ==
    IF dots = {} THEN Decimal(sign, u, <<>>)
    ELSE Decimal(sign, SubSeq(u, 1, Min(dots) - 1),
                       SubSeq(u, Min(dots) + 1, Len(u)))

Unsigned(sign, u) ==
    IF lower(u) = <<"n","a","n">> THEN NaN
    ELSE IF lower(u) \in { <<"i","n","f">>,
                           <<"i","n","f","i","n","i","t","y">> }
         THEN Inf(sign)
         ELSE SplitAtPoint(sign, u, {i \in 1..Len(u) : u[i] = "."})

Signed(t) ==
    IF t # <<>> /\ t[1] = "-" THEN Unsigned(-1, Tail(t))
    ELSE IF t # <<>> /\ t[1] = "+" THEN Unsigned(1, Tail(t))
         ELSE Unsigned(1, t)

float(str) == Signed(strip(str))

\* The comparison a < b of two floats: false whenever either is nan.
FloatLt(a, b) ==
    IF a.kind = "nan" \/ b.kind = "nan" THEN FALSE
    ELSE IF a.kind = "inf" THEN a.num < 0 /\ ~(b.kind = "inf" /\ b.num < 0)
    ELSE IF b.kind = "inf" THEN b.num > 0
    ELSE a.num * b.den < b.num * a.den

(***************************************************************************)
(* The rank key and the sort of update_leaderboard.                        *)
(***************************************************************************)
\* What get_accuracy_value returns once float() has returned or raised:
\* -1 for a ValueError, val / 100 when val > 1 (inf / 100 is inf), else val.
AccuracyValue(val) ==
    IF val.kind = "ValueError" THEN Num(-1, 1)
    ELSE IF FloatLt(Num(1, 1), val) /\ val.kind = "num"
         THEN Num(val.num, val.den * 100)
         ELSE val

get_accuracy_value(sub) ==
    IF sub.accuracy = NA THEN Num(-1, 1)
    ELSE AccuracyValue(float(replace_percent(strip(sub.accuracy))))

\* get_accuracy_value of every accuracy a Submission can hold, computed once.
RankKey == [acc \in StoredAccuracies |-> get_accuracy_value([accuracy |-> acc])]

\* The comparison list.sort makes between two elements: their keys, by <.
KeyLt(x, y) == FloatLt(RankKey[x.accuracy], RankKey[y.accuracy])

Reverse(a) == [i \in 1..Len(a) |-> a[Len(a) + 1 - i]]

\* list.sort of CPython for lists shorter than 64 elements: count_run finds
\* the run the list starts with (non-descending, or strictly descending and
\* then reversed), binarysort inserts the remaining elements one by one.
RECURSIVE RunEnd(_, _, _)
RunEnd(a, k, descending) ==
    IF k = Len(a) THEN k
    ELSE IF KeyLt(a[k + 1], a[k]) = descending
         THEN RunEnd(a, k + 1, descending)
         ELSE k

RunFrom(a, descending) ==
    [n |-> RunEnd(a, 2, descending), descending |-> descending]

count_run(a) ==
    IF Len(a) <= 1 THEN [n |-> Len(a), descending |-> FALSE]
    ELSE RunFrom(a, KeyLt(a[2], a[1]))

\* The insertion point of pivot in a[l+1..r] (l and r count from 0).
RECURSIVE Bisect(_, _, _, _)
Bisect(a, pivot, l, r) ==
    IF l >= r THEN l
    ELSE IF KeyLt(pivot, a[l + ((r - l) \div 2) + 1])
         THEN Bisect(a, pivot, l, l + ((r - l) \div 2))
         ELSE Bisect(a, pivot, l + ((r - l) \div 2) + 1, r)

InsertAt(a, l, pivot) ==
    SubSeq(a, 1, l) \o <<pivot>> \o SubSeq(a, l + 1, Len(a))

RECURSIVE binarysort(_, _)
binarysort(sorted, rest) ==
    IF rest = <<>> THEN sorted
    ELSE binarysort(InsertAt(sorted,
                             Bisect(sorted, Head(rest), 0, Len(sorted)),
                             Head(rest)),
                    Tail(rest))

\* The run is put in ascending order and the rest inserted into it.
SortFromRun(a, run) ==
    binarysort(IF run.descending THEN Reverse(SubSeq(a, 1, run.n))
               ELSE SubSeq(a, 1, run.n),
               SubSeq(a, run.n + 1, Len(a)))

SortAscending(a) == SortFromRun(a, count_run(a))

\* submissions.sort(key=get_accuracy_value, reverse=True): the list is
\* reversed, sorted ascending, and reversed again.
sort_reverse(submissions) == Reverse(SortAscending(Reverse(submissions)))

(***************************************************************************)
(* Persistence: docs/leaderboard.json holds {'submissions': [...]}.  The   *)
(* entries are dicts of strings, one integer and one boolean, which        *)
(* json.dump and json.load write and read back unchanged; the file is      *)
(* modelled by the list it holds.                                          *)
(***************************************************************************)
load_leaderboard == IF file_exists THEN file_submissions ELSE <<>>

save_leaderboard(submissions) ==
    /\ file_exists' = TRUE
    /\ file_submissions' = submissions

(***************************************************************************)
(* The three operations.  last records the call that ran last: what was    *)
(* passed, what was returned and printed, and whether the file was saved.  *)
(***************************************************************************)
Call(op, n, author, body, existed, ret, output, saved) ==
    [op |-> op, issue_number |-> n, issue_author |-> author,
     issue_body |-> body, existed |-> existed, ret |-> ret,
     output |-> output, saved |-> saved]

\* A search that never finds the submission.
existing_index_none(leaderboard, issue_number) == 0

\* The loop that looks for the submission of the issue: the index of the
\* first one, or 0 for None.
existing_index(leaderboard, issue_number) ==
    LET found == {i \in 1..Len(leaderboard) :
                    leaderboard[i].issue_number = issue_number}
    IN  IF found = {} THEN 0 ELSE Min(found)

\* The submission entry built from the parsed data and the defaults.
new_submission(issue_number, issue_author, submission_data, issue_url, now) ==
    [issue_number            |-> issue_number,
     student_name            |-> get(submission_data, "student_name",
                                     issue_author),
     model_length            |-> get(submission_data, "model_length", NA),
     accuracy                |-> get(submission_data, "accuracy", NA),
     tensorboard_link        |-> get(submission_data, "tensorboard_link",
                                     <<>>),
     improvement_description |-> get(submission_data,
                                     "improvement_description", <<>>),
     gpu_hours               |-> get(submission_data, "gpu_hours", NA),
     issue_url               |-> issue_url,
     submitted_at            |-> now,
     verified                |-> FALSE]

\* A replacement that does not carry the verification status over.
merge_submission_resets(submissions, index, submission) ==
    IF index # 0
    THEN [submissions EXCEPT ![index] = submission]
    ELSE Append(submissions, submission)

\* Update or add: an existing entry is replaced in place and keeps its
\* verification status, a new one is appended.
merge_submission(submissions, index, submission) ==
    IF index # 0
    THEN [submissions EXCEPT ![index] =
            [submission EXCEPT !.verified = submissions[index].verified]]
    ELSE Append(submissions, submission)

update_leaderboard(issue_number, issue_author, issue_body, issue_url, now) ==
    LET leaderboard     == load_leaderboard
        submission_data == ParsedBody[issue_body]
        index           == existing_index(leaderboard, issue_number)
        submission      == new_submission(issue_number, issue_author,
                                          submission_data, issue_url, now)
        merged          == merge_submission(leaderboard, index, submission)
    IN  /\ save_leaderboard(sort_reverse(merged))
        /\ last' = Call("update", issue_number, issue_author, issue_body,
                        index # 0, TRUE, "updated", TRUE)

mark_verified(issue_number) ==
    LET leaderboard == load_leaderboard
        found       == {i \in 1..Len(leaderboard) :
                          leaderboard[i].issue_number = issue_number}
    IN  IF found # {}
        THEN /\ save_leaderboard(
                   [leaderboard EXCEPT ![Min(found)].verified = TRUE])
             /\ last' = Call("verify", issue_number, <<>>, <<>>,
                             TRUE, TRUE, "verified", TRUE)
        ELSE /\ UNCHANGED <<file_exists, file_submissions>>
             /\ last' = Call("verify", issue_number, <<>>, <<>>,
                             FALSE, FALSE, "not found", FALSE)

\* A removal that writes the file back whether or not anything was removed.
remove_submission_always_saves(issue_number) ==
    LET leaderboard == load_leaderboard
        remaining   == SelectSeq(leaderboard,
                           LAMBDA sub : sub.issue_number # issue_number)
        removed     == Len(remaining) < Len(leaderboard)
    IN  /\ save_leaderboard(remaining)
        /\ last' = Call("remove", issue_number, <<>>, <<>>, removed, removed,
                        IF removed THEN "removed" ELSE "not found", TRUE)

\* A removal whose filter is inverted: it keeps the entries of the issue.
remove_submission_inverted(issue_number) ==
    LET leaderboard == load_leaderboard
        remaining   == SelectSeq(leaderboard,
                           LAMBDA sub : sub.issue_number = issue_number)
    IN  IF Len(remaining) < Len(leaderboard)
        THEN /\ save_leaderboard(remaining)
             /\ last' = Call("remove", issue_number, <<>>, <<>>,
                             TRUE, TRUE, "removed", TRUE)
        ELSE /\ UNCHANGED <<file_exists, file_submissions>>
             /\ last' = Call("remove", issue_number, <<>>, <<>>,
                             FALSE, FALSE, "not found", FALSE)

remove_submission(issue_number) ==
    LET leaderboard == load_leaderboard
        remaining   == SelectSeq(leaderboard,
                           LAMBDA sub : sub.issue_number # issue_number)
    IN  IF Len(remaining) < Len(leaderboard)
        THEN /\ save_leaderboard(remaining)
             /\ last' = Call("remove", issue_number, <<>>, <<>>,
                             TRUE, TRUE, "removed", TRUE)
        ELSE /\ UNCHANGED <<file_exists, file_submissions>>
             /\ last' = Call("remove", issue_number, <<>>, <<>>,
                             FALSE, FALSE, "not found", FALSE)

\* The store is empty at first: the file is absent, or holds no submission.
Init ==
    /\ file_exists \in BOOLEAN
    /\ file_submissions = <<>>
    /\ last = Call("none", 0, <<>>, <<>>, FALSE, FALSE, "", FALSE)

Update ==
    \E n \in Issues, b \in SortBodies :
        update_leaderboard(n, <<"a","l">>, b, "url", "t1")

Verify == \E n \in Issues : mark_verified(n)

Remove == \E n \in Issues : remove_submission(n)

Next == Update \/ Verify \/ Remove

Spec == Init /\ [][Next]_vars

\* The same operations on one issue, over the bodies that exercise the parser.
UpdateParse ==
    \E a \in Authors, b \in ParseBodies, t \in Times :
        update_leaderboard(1, a, b, "url", t)

VerifyParse == mark_verified(1)

RemoveParse == remove_submission(1)

NextParse == UpdateParse \/ VerifyParse \/ RemoveParse

SpecParse == Init /\ [][NextParse]_vars

(***************************************************************************)
(* Properties.                                                             *)
(***************************************************************************)
IssueIndices(subs, n) == {i \in 1..Len(subs) : subs[i].issue_number = n}

HasIssue(subs, n) == IssueIndices(subs, n) # {}

Entry(subs, n) == subs[Min(IssueIndices(subs, n))]

IsVerified(subs, n) == \E i \in IssueIndices(subs, n) : subs[i].verified

\* The rank key of a stored submission.
Key(sub) == RankKey[sub.accuracy]

\* a >= b on floats: false whenever either is nan.
FloatGe(a, b) == a.kind # "nan" /\ b.kind # "nan" /\ ~FloatLt(a, b)

FloatEq(a, b) == FloatGe(a, b) /\ FloatGe(b, a)

Descending(subs) ==
    \A i \in 1..(Len(subs) - 1) : FloatGe(Key(subs[i]), Key(subs[i + 1]))

\* C1: the store holds at most one Submission per issue number, and after
\* an update exactly one for the issue that was updated.
C1_OnePerIssue ==
    /\ \A i, j \in 1..Len(file_submissions) :
          file_submissions[i].issue_number = file_submissions[j].issue_number
              => i = j
    /\ last.op = "update" =>
          Cardinality(IssueIndices(file_submissions, last.issue_number)) = 1

\* An update of an issue that was already in a store of two.
C1_Witness ==
    last.op = "update" /\ last.existed /\ Len(file_submissions) = 2

\* C2: a Submission that is verified stays verified through every step
\* that is not the removal of its issue; an update never resets the flag.
C2_VerifiedSticky ==
    [][\A n \in Issues :
          (/\ IsVerified(file_submissions, n)
           /\ ~(last'.op = "remove" /\ last'.issue_number = n))
              => IsVerified(file_submissions', n)]_vars

\* An update of an existing, verified issue.
C2_Witness ==
    /\ last.op = "update"
    /\ last.existed
    /\ IsVerified(file_submissions, last.issue_number)

\* Where a submission stood before the sort of an update: at its old index
\* when its issue was in the store, at the end when it was appended.
PreSortPos(before, m) ==
    IF HasIssue(before, m) THEN Min(IssueIndices(before, m))
    ELSE Len(before) + 1

\* C3: after every update the store is the stable descending sort, by rank
\* key, of the old store with the candidate replaced in place or appended:
\* the other entries are kept, adjacent rank keys are >=, and entries of
\* equal rank key keep their pre-sort order.
C3_StableDescendingSort ==
    [][last'.op = "update" =>
          LET before == file_submissions
              after  == file_submissions'
              n      == last'.issue_number
          IN  /\ Len(after) = Len(before) + (IF HasIssue(before, n) THEN 0 ELSE 1)
              /\ HasIssue(after, n)
              /\ \A i \in 1..Len(before) :
                    before[i].issue_number # n =>
                        /\ HasIssue(after, before[i].issue_number)
                        /\ Entry(after, before[i].issue_number) = before[i]
              /\ Descending(after)
              /\ \A i, j \in 1..Len(after) :
                    (i < j /\ FloatEq(Key(after[i]), Key(after[j]))) =>
                        PreSortPos(before, after[i].issue_number)
                            < PreSortPos(before, after[j].issue_number)]_vars

\* C4: verify and remove of an issue that is not in the store report
\* "not found", do not save, and leave the file as it was (absent or not).
C4_UnknownIssueNoOp ==
    [][(/\ last'.op \in {"verify", "remove"}
        /\ ~HasIssue(file_submissions, last'.issue_number))
          => /\ last'.output = "not found"
             /\ ~last'.ret
             /\ ~last'.saved
             /\ file_exists' = file_exists
             /\ file_submissions' = file_submissions]_vars

\* A verify or remove that found nothing in a store that is not empty.
C4_Witness ==
    /\ last.op \in {"verify", "remove"}
    /\ last.output = "not found"
    /\ file_submissions # <<>>

\* The text a heading introduces: from the first occurrence of the heading
\* up to the next line that starts with ###, or the end, trimmed.
HeadingPresent(body, key) ==
    \E p \in 1..Len(body) : HasAt(body, p, Heading(key))

SectionContent(body, key) ==
    LET p    == Min({q \in 1..Len(body) : HasAt(body, q, Heading(key))})
        a    == p + Len(Heading(key))
        stop == Min({e \in a..(Len(body) + 1) :
                        e = Len(body) + 1 \/ HasAt(body, e, NL \o H3)})
    IN  strip(SubSeq(body, a, stop - 1))

IsMultiLine(text) == \E i \in 1..Len(text) : text[i] = "\n"

\* TRUE iff some line of text starts with ###.
HasHeadingLine(text) ==
    \E q \in 1..Len(text) :
        HasAt(text, q, H3) /\ (q = 1 \/ text[q - 1] = "\n")

\* C5: a value that spans several lines is returned whole, up to the next
\* ### heading or the end of the text, trimmed, newlines kept.
C5_MultiLineCapture ==
    last.op = "update" =>
        LET body == last.issue_body
            data == parse_issue_body(body)
        IN  \A key \in Fields :
                (/\ HeadingPresent(body, key)
                 /\ IsMultiLine(SectionContent(body, key)))
                    => /\ key \in DOMAIN data
                       /\ data[key] = SectionContent(body, key)

\* C6: a heading with nothing but blanks before the next ### heading or
\* the end of the text is left out of the result, and no value contains a
\* following ### heading line.
C6_EmptyOmitted ==
    last.op = "update" =>
        LET body == last.issue_body
            data == parse_issue_body(body)
        IN  \A key \in Fields :
                /\ (/\ HeadingPresent(body, key)
                    /\ SectionContent(body, key) = <<>>)
                       => key \notin DOMAIN data
                /\ key \in DOMAIN data => ~HasHeadingLine(data[key])

\* TRUE iff float() accepts the stored accuracy, as the rank key computes it.
ParsesAsNumber(acc) ==
    acc # NA /\ float(replace_percent(strip(acc))).kind # "ValueError"

\* C7: after every update, each Submission whose accuracy is N/A or does
\* not parse stands after every Submission whose accuracy parses.
C7_MissingLast ==
    last.op = "update" =>
        \A i, j \in 1..Len(file_submissions) :
            (/\ ~ParsesAsNumber(file_submissions[i].accuracy)
             /\ ParsesAsNumber(file_submissions[j].accuracy))
                => j < i

Default(key, issue_author) ==
    CASE key = "student_name" -> issue_author
      [] key \in {"model_length", "accuracy", "gpu_hours"} -> NA
      [] OTHER -> <<>>

\* C8: a field whose heading is missing, or whose value is one of the
\* "no answer" tokens in any case, holds its default in the Submission
\* the update writes; a newly created Submission is not verified.
C8_SentinelDefaults ==
    last.op = "update" =>
        LET body == last.issue_body
            sub  == Entry(file_submissions, last.issue_number)
        IN  /\ \A key \in Fields :
                  (\/ ~HeadingPresent(body, key)
                   \/ lower(SectionContent(body, key)) \in Sentinels)
                      => sub[key] = Default(key, last.issue_author)
            /\ ~last.existed => ~sub.verified

\* The first update of an issue whose body answers N/A and _No response_.
C8_Witness ==
    /\ last.op = "update"
    /\ last.issue_body = SentinelExample
    /\ ~last.existed
    /\ Entry(file_submissions, last.issue_number).accuracy = NA
    /\ Entry(file_submissions, last.issue_number).gpu_hours = NA

C10_AlwaysDescending == Descending(file_submissions)

====
